---- MODULE Spec2Model ----
(***************************************************************************)
(* Session-cookie bridging client (app/server.ts) and the route handlers   *)
(* that use it (app/routes/home.tsx, app/routes/crud.tsx).                  *)
(*                                                                         *)
(* Strings are sequences of one-character strings, so that parsing a       *)
(* Cookie header and serializing a Set-Cookie header are computed and not  *)
(* assumed.                                                                *)
(***************************************************************************)
EXTENDS Integers, Sequences, FiniteSets, TLC

(***************************************************************************)
(* Text helpers                                                            *)
(***************************************************************************)

\* String.prototype.indexOf(c, from), 1-based; 0 when c does not occur.
RECURSIVE IndexOf(_, _, _)
IndexOf(s, c, from) ==
    IF from > Len(s) THEN 0
    ELSE IF s[from] = c THEN from
    ELSE IndexOf(s, c, from + 1)

\* String.prototype.lastIndexOf(c, upto), 1-based; 0 when c does not occur.
RECURSIVE LastIndexOf(_, _, _)
LastIndexOf(s, c, upto) ==
    IF upto < 1 THEN 0
    ELSE IF upto <= Len(s) /\ s[upto] = c THEN upto
    ELSE LastIndexOf(s, c, upto - 1)

\* String.prototype.trim() on the whitespace of the model's alphabet.
RECURSIVE Trim(_)
Trim(s) ==
    IF s = <<>> THEN s
    ELSE IF Head(s) = " " THEN Trim(Tail(s))
    ELSE IF s[Len(s)] = " " THEN Trim(SubSeq(s, 1, Len(s) - 1))
    ELSE s

\* The printable characters of ASCII, from the space (code 32) to the tilde
\* (code 126), in the order of their codes. (The grave accent, code 96,
\* stands under its name: a string of the language cannot hold it.)
AsciiPrintable ==
    <<" ", "!", "\"", "#", "$", "%", "&", "'", "(", ")", "*", "+",
      ",", "-", ".", "/", "0", "1", "2", "3", "4", "5", "6", "7",
      "8", "9", ":", ";", "<", "=", ">", "?", "@", "A", "B", "C",
      "D", "E", "F", "G", "H", "I", "J", "K", "L", "M", "N", "O",
      "P", "Q", "R", "S", "T", "U", "V", "W", "X", "Y", "Z", "[",
      "\\", "]", "^", "_", "U+96", "a", "b", "c", "d", "e", "f", "g",
      "h", "i", "j", "k", "l", "m", "n", "o", "p", "q", "r", "s",
      "t", "u", "v", "w", "x", "y", "z", "{", "|", "}", "~">>

HexDigits ==
    <<"0", "1", "2", "3", "4", "5", "6", "7", "8", "9", "A", "B", "C", "D", "E", "F">>

LowerHexDigits == <<"a", "b", "c", "d", "e", "f">>

\* The value of a hexadecimal digit, -1 for any other character.
HexVal(c) ==
    CASE \E i \in 1..16 : HexDigits[i] = c -> (CHOOSE i \in 1..16 : HexDigits[i] = c) - 1
      [] \E i \in 1..6 : LowerHexDigits[i] = c ->
            (CHOOSE i \in 1..6 : LowerHexDigits[i] = c) + 9
      [] OTHER -> -1

\* The byte the escape at position i of s spells, -1 when no escape ("%"
\* and two hexadecimal digits) stands there.
PctByte(s, i) ==
    IF /\ Len(s) >= i + 2
       /\ s[i] = "%"
       /\ HexVal(s[i + 1]) >= 0
       /\ HexVal(s[i + 2]) >= 0
    THEN 16 * HexVal(s[i + 1]) + HexVal(s[i + 2])
    ELSE -1

\* The number of bytes of the UTF-8 sequence a first byte opens, 0 for a
\* byte that opens none.
Utf8Len(b) ==
    CASE b \in 0..127 -> 1
      [] b \in 194..223 -> 2
      [] b \in 224..239 -> 3
      [] b \in 240..244 -> 4
      [] OTHER -> 0

\* The code point a UTF-8 sequence encodes, -1 when the bytes are not the
\* encoding of a code point (a byte missing or not a continuation byte, an
\* overlong form, a surrogate, a value beyond U+10FFFF).
Utf8Point(bs) ==
    LET n == Len(bs)
        conts == \A k \in 2..n : bs[k] \in 128..191
        cp == CASE n = 1 -> bs[1]
                [] n = 2 -> (bs[1] - 192) * 64 + (bs[2] - 128)
                [] n = 3 -> (bs[1] - 224) * 4096 + (bs[2] - 128) * 64 + (bs[3] - 128)
                [] OTHER -> (bs[1] - 240) * 262144 + (bs[2] - 128) * 4096
                            + (bs[3] - 128) * 64 + (bs[4] - 128)
    IN  IF ~conts THEN -1
        ELSE IF n = 3 /\ (cp < 2048 \/ cp \in 55296..57343) THEN -1
        ELSE IF n = 4 /\ (cp < 65536 \/ cp > 1114111) THEN -1
        ELSE cp

\* The character of a code point: itself when printable ASCII, and a name
\* made of "U+" and the code otherwise.
CharOf(cp) ==
    IF cp \in 32..126 THEN AsciiPrintable[cp - 31] ELSE "U+" \o ToString(cp)

\* decodeURIComponent: each run of escapes that is the UTF-8 encoding of a
\* code point becomes its character; ok is FALSE where the built-in throws
\* URIError (a "%" without two hexadecimal digits, or escapes that are not
\* valid UTF-8).
RECURSIVE DecodeURIComponent(_)
DecodeURIComponent(s) ==
    IF s = <<>> THEN [ok |-> TRUE, val |-> <<>>]
    ELSE IF Head(s) # "%"
    THEN LET rest == DecodeURIComponent(Tail(s))
         IN  [ok |-> rest.ok, val |-> <<Head(s)>> \o rest.val]
    ELSE LET n == Utf8Len(PctByte(s, 1))
             bytes == [k \in 1..n |-> PctByte(s, 3 * k - 2)]
         IN  IF n = 0 \/ (\E k \in 1..n : bytes[k] < 0) \/ Utf8Point(bytes) < 0
             THEN [ok |-> FALSE, val |-> <<>>]
             ELSE LET rest == DecodeURIComponent(SubSeq(s, 3 * n + 1, Len(s)))
                  IN  [ok |-> rest.ok, val |-> <<CharOf(Utf8Point(bytes))>> \o rest.val]

\* The characters encodeURIComponent leaves alone: letters, digits and
\* - _ . ! ~ * ' ( ).
Unreserved ==
    {"A", "B", "C", "D", "E", "F", "G", "H", "I", "J", "K", "L", "M",
     "N", "O", "P", "Q", "R", "S", "T", "U", "V", "W", "X", "Y", "Z",
     "a", "b", "c", "d", "e", "f", "g", "h", "i", "j", "k", "l", "m",
     "n", "o", "p", "q", "r", "s", "t", "u", "v", "w", "x", "y", "z",
     "0", "1", "2", "3", "4", "5", "6", "7", "8", "9", "-", "_", ".",
     "!", "~", "*", "'", "(", ")"}

\* The escape of a character of printable ASCII: "%" and the two upper-case
\* hexadecimal digits of its code.
PctEscape(c) ==
    LET code == 31 + (CHOOSE i \in 1..95 : AsciiPrintable[i] = c)
    IN  <<"%", HexDigits[(code \div 16) + 1], HexDigits[(code % 16) + 1]>>

\* encodeURIComponent over the printable characters of ASCII (the cookie
\* values written here hold no other).
RECURSIVE EncodeURIComponent(_)
EncodeURIComponent(s) ==
    IF s = <<>> THEN <<>>
    ELSE (IF Head(s) \in Unreserved THEN <<Head(s)>> ELSE PctEscape(Head(s)))
         \o EncodeURIComponent(Tail(s))

(***************************************************************************)
(* parseCookieHeader / serializeCookieHeader, as app/server.ts calls them   *)
(***************************************************************************)

\* The value of a name in a parsed object (a sequence of name/value records).
HasName(obj, name) == \E i \in 1..Len(obj) : obj[i].name = name

\* cookie.parse's decode step: decodeURIComponent when the value holds a
\* "%", inside try/catch: a value that does not decode is kept as it is.
TryDecode(v) ==
    IF IndexOf(v, "%", 1) = 0 THEN [threw |-> FALSE, val |-> v]
    ELSE IF DecodeURIComponent(v).ok
    THEN [threw |-> FALSE, val |-> DecodeURIComponent(v).val]
    ELSE [threw |-> FALSE, val |-> v]

\* The scanning loop of cookie.parse: index is the position the scan is at,
\* acc = [threw, obj] what has been collected. A segment without "=" is
\* skipped, the first pair of a name wins. (The alphabet holds no double
\* quote, so the unquoting of a quoted value never applies.)
RECURSIVE ParseFrom(_, _, _)
ParseFrom(str, index, acc) ==
    IF acc.threw \/ index > Len(str) THEN acc
    ELSE LET eqIdx == IndexOf(str, "=", index)
             semi  == IndexOf(str, ";", index)
             endIdx == IF semi = 0 THEN Len(str) + 1 ELSE semi
         IN  IF eqIdx = 0 THEN acc
             ELSE IF semi # 0 /\ semi < eqIdx
             THEN ParseFrom(str, LastIndexOf(str, ";", eqIdx - 1) + 1, acc)
             ELSE LET key == Trim(SubSeq(str, index, eqIdx - 1))
                      dec == TryDecode(Trim(SubSeq(str, eqIdx + 1, endIdx - 1)))
                  IN  IF HasName(acc.obj, key)
                      THEN ParseFrom(str, endIdx + 1, acc)
                      ELSE ParseFrom(str, endIdx + 1,
                               [threw |-> dec.threw,
                                obj |-> IF dec.threw THEN acc.obj
                                        ELSE Append(acc.obj, [name |-> key, value |-> dec.val])])

\* What stands for null (no Cookie header on the request).
Null == <<"null">>

\* The releases of the cookie package a build may resolve for
\* parseCookieHeader. They differ on a header shorter than two characters:
\* from 0.7 on cookie.parse returns no pair for it, 0.6 scans it (and finds,
\* in "=", an empty name with an empty value).
CookieReleases == {"0.6", "0.7", "1.0"}

\* parseCookieHeader(header) under a release: a header that is not a string
\* makes cookie.parse throw TypeError; otherwise the pairs found, in order.
ParseCookieHeader(release, header) ==
    IF header = Null THEN [threw |-> TRUE, obj |-> <<>>]
    ELSE IF release # "0.6" /\ Len(header) < 2 THEN [threw |-> FALSE, obj |-> <<>>]
    ELSE ParseFrom(header, 1, [threw |-> FALSE, obj |-> <<>>])

\* serializeCookieHeader(name, value, options): name=encoded value, then the
\* attributes in the order cookie.serialize writes them. options.maxAge
\* stands for { maxAge: 0 } and options.path for { path: "/" }.
SerializeCookieHeader(name, value, options) ==
    name \o <<"=">> \o EncodeURIComponent(value)
    \o (IF options.maxAge THEN <<";", " ", "M", "a", "x", "-", "A", "g", "e", "=", "0">> ELSE <<>>)
    \o (IF options.path THEN <<";", " ", "P", "a", "t", "h", "=", "/">> ELSE <<>>)


(***************************************************************************)
(* Inputs                                                                  *)
(***************************************************************************)

\* The requests in flight: two, as the isolation property needs.
Req == {"A", "B"}

\* The route handlers that obtain a handle and go on to use it.
\*   homeAction    home.tsx, action (logout)
\*   loginLoader2  home.tsx, loader of the second login version
\*   loginAction2  home.tsx, action of the second login version
\*   concurrent    a caller that issues several service calls at once
HandlerRoutes == {"homeAction", "loginLoader2", "loginAction2"}

\* The other handlers of home.tsx and the handlers of crud.tsx:
\*   homeLoader     home.tsx, loader of the home route
\*   loginLoader1   home.tsx, loader of the first login version
\*   loginAction1   home.tsx, action of the first login version
\*   crudAction     crud.tsx, action
\*   crudActionAlt  the other version of the crud action (unnamed/part_000)
CrudRoutes == {"crudAction", "crudActionAlt"}
CrudLoaderRoutes == {"crudLoader", "crudLoaderAlt"}

AuthRoutes == HandlerRoutes \cup {"homeLoader", "loginLoader1", "loginAction1"}

AllRoutes == AuthRoutes \cup CrudRoutes \cup CrudLoaderRoutes

\* formData.get(name) of a field the form does not hold.
Absent == "<absent>"

\* !value, for a form field.
IsFalsy(v) == v \in {Absent, ""}

\* A request's form data, by field.
NoForm ==
    [email |-> Absent, password |-> Absent, actionType |-> Absent, id |-> Absent,
     name |-> Absent, description |-> Absent]

\* The login forms: email and password given, empty or missing.
LoginForms ==
    {[NoForm EXCEPT !.email = e, !.password = pw] :
        e \in {Absent, "", "user@example.com"}, pw \in {Absent, "secret"}}

\* The crud forms: the three action types, another one and none, with the
\* fields the page's forms send.
CrudForms ==
    {[NoForm EXCEPT !.actionType = "addItem", !.name = n, !.description = "d"] :
        n \in {"n1", "n2"}}
    \cup {[NoForm EXCEPT !.actionType = "editItem", !.id = i, !.name = "n1",
                         !.description = "d"] : i \in {"1", "2"}}
    \cup {[NoForm EXCEPT !.actionType = "deleteItem", !.id = i] : i \in {"1", "2"}}
    \cup {[NoForm EXCEPT !.actionType = "sortItems", !.id = "1"], NoForm}

FormsOf(route) ==
    CASE route \in {"loginAction1", "loginAction2"} -> LoginForms
      [] route \in CrudRoutes -> CrudForms
      [] OTHER -> {NoForm}

SidAbc == <<"s", "i", "d", "=", "a", "b", "c">>
SidXyz == <<"s", "i", "d", "=", "x", "y", "z">>
SidAbc123 == <<"s", "i", "d", "=", "a", "b", "c", "1", "2", "3">>

\* The value a Headers object keeps for a header: the text without its
\* leading and trailing whitespace.
NormalizeHeaderValue(text) == Trim(text)

\* A request's Cookie header: present or not, and its value as the Request
\* holds it.
NoCookie == [hasCookie |-> FALSE, cookie |-> <<>>]
WithCookie(text) == [hasCookie |-> TRUE, cookie |-> NormalizeHeaderValue(text)]

\* Cookie instructions the service hands to setAll: (name, value, options).
Sid == <<"s", "i", "d">>
Tok == <<"t", "o", "k">>
NoOptions == [path |-> FALSE, maxAge |-> FALSE]
SidOld == [name |-> Sid, value |-> <<"o", "l", "d">>, options |-> NoOptions]
SidNew == [name |-> Sid, value |-> <<"n", "e", "w">>, options |-> [path |-> TRUE, maxAge |-> FALSE]]
TokDel == [name |-> Tok, value |-> <<"a", " ", "b">>, options |-> [path |-> TRUE, maxAge |-> TRUE]]

\* The batches setAll is invoked with: no instruction, one, several. The
\* second and the third set the same name one after the other.
Batches == {<<>>, <<SidOld>>, <<SidNew, TokDel>>}

\* How many setAll invocations the service makes over all requests.
MaxWrites == 3

\* How a service call ends: a result without error, a result with an error,
\* or an exception.
Outcomes == {"ok", "error", "throws"}

\* A value that is reported as an error or thrown: an Error with its
\* message, or a value that is not an Error (message then holds its text).
\* NoValue: nothing reported, nothing thrown.
ErrorOf(message) == [isError |-> TRUE, message |-> message]
NonError(text) == [isError |-> FALSE, message |-> text]
NoValue == [isError |-> FALSE, message |-> "<none>"]

\* What a service call settles with, per outcome: nothing; the error it
\* reports, whose message may be empty; the value it throws, an Error whose
\* message may be empty or a value that is not an Error.
DetailsOf(outcome) ==
    CASE outcome = "ok" -> {NoValue}
      [] outcome = "error" -> {ErrorOf("Invalid login credentials"), ErrorOf("")}
      [] OTHER -> {ErrorOf("fetch failed"), ErrorOf(""), NonError("boom")}

\* One value per outcome, for the specifications about the cookie headers,
\* in which the texts of errors play no part.
DetailOf(outcome) ==
    CASE outcome = "ok" -> NoValue
      [] outcome = "error" -> ErrorOf("Invalid login credentials")
      [] OTHER -> ErrorOf("fetch failed")

\* How request.formData() ends: it resolves (NoValue), or rejects with the
\* TypeError of a body whose content type is not a form's, or of a form body
\* that does not parse.
FormOutcomes ==
    {NoValue,
     ErrorOf("Content-Type was not one of \"multipart/form-data\" or \"application/x-www-form-urlencoded\"."),
     ErrorOf("Failed to parse body as FormData.")}

(***************************************************************************)
(* State                                                                   *)
(***************************************************************************)

VARIABLES
    env,        \* process.env: whether SUPABASE_URL and SUPABASE_ANON_KEY are set
    request,    \* per request: its route, its Cookie header and its form data
    pc,         \* per request: where its handler is
    hdl,        \* per request: the Headers object of its handle (0: no handle)
    allocated,  \* the Headers objects created so far
    heap,       \* per Headers object: its Set-Cookie values, in order
    calls,      \* per request: the service calls in flight on its handle
    started,    \* per request: the service calls issued so far
    result,     \* per request: how the awaited service call ended
    detail,     \* per request: the error the call reported or the value it threw
    response,   \* per request: what the handler returned or threw
    log,        \* history: per request, the setAll invocations on its handle
    reads,      \* history: per request, what getAll returned, before and after a write
    snapshot,   \* history: per request, the Cookie header when the handle was created
    ops,        \* history: per request, the table operations its handler issued
    ui          \* the state of the Crud component in the browser

vars == <<env, request, pc, hdl, allocated, heap, calls, started, result, detail,
          response, log, reads, snapshot, ops, ui>>

Addr == 1..Cardinality(Req)

\* A response: what kind of value the handler produced, whether it threw it,
\* its redirect target, its error text, its Set-Cookie headers, and (history)
\* the exception it came from, if any: where it was raised and its value.
NoResponse ==
    [kind |-> "none", to |-> "", error |-> "", thrown |-> FALSE, headers |-> <<>>,
     cause |-> "", caught |-> NoValue]

(***************************************************************************)
(* app/server.ts                                                           *)
(***************************************************************************)

\* A faulty variant of NewHeaders: one Headers object at module scope, shared by every
\* handle.
SharedHeaders(alloc) == 1

\* new Headers(): a fresh, empty Headers object per call of getServerClient.
NewHeaders(alloc) ==
    CHOOSE a \in Addr : a \notin alloc /\ \A b \in Addr : b < a => b \in alloc

\* createServerClient(process.env.SUPABASE_URL!, process.env.SUPABASE_ANON_KEY!, ...)
\* throws when either value is missing; nothing checks them earlier.
ConfigPresent(e) == e.url /\ e.key

\* A faulty variant of CookieHeaderOf: without the ?? "" default.
CookieHeaderNoDefault(req) == IF req.hasCookie THEN req.cookie ELSE Null

\* request.headers.get("Cookie") ?? ""
CookieHeaderOf(req) == IF req.hasCookie THEN req.cookie ELSE <<>>

\* The cookie name of a Set-Cookie value: the text before its first "=".
NameOfHeader(v) == SubSeq(v, 1, IndexOf(v, "=", 1) - 1)

\* A faulty variant of GetAllResult: the cookies set so far through the handle are
\* reported along with the request's.
GetAllMerged(r) ==
    LET base == ParseCookieHeader(env.cookie, CookieHeaderOf(request[r]))
        set == heap[hdl[r]]
    IN  [threw |-> base.threw,
         obj |-> base.obj \o [i \in 1..Len(set) |->
                                [name |-> NameOfHeader(set[i]), value |-> set[i]]]]

\* getAll(): parseCookieHeader(request.headers.get("Cookie") ?? "") ?? {}
\* (parseCookieHeader returns a list, never null: the ?? {} never applies.)
GetAllResult(r) == ParseCookieHeader(env.cookie, CookieHeaderOf(request[r]))

\* A faulty variant of HeadersAppend: headers.set, which replaces what was there.
HeadersSet(h, v) == <<v>>

\* headers.append("Set-Cookie", value)
HeadersAppend(h, v) == Append(h, v)

\* A faulty variant of SetAllHeaders: the batch is walked from its last instruction.
RECURSIVE SetAllReversed(_, _)
SetAllReversed(h, cookiesToSet) ==
    IF cookiesToSet = <<>> THEN h
    ELSE HeadersAppend(SetAllReversed(h, Tail(cookiesToSet)),
                       SerializeCookieHeader(Head(cookiesToSet).name,
                                             Head(cookiesToSet).value,
                                             Head(cookiesToSet).options))

\* A faulty variant of SetAllHeaders: one header per cookie name is kept, as a store
\* keyed by name would; an instruction for a name already there is dropped.
RECURSIVE SetAllKeyed(_, _)
SetAllKeyed(h, cookiesToSet) ==
    IF cookiesToSet = <<>> THEN h
    ELSE LET v == SerializeCookieHeader(Head(cookiesToSet).name,
                                        Head(cookiesToSet).value,
                                        Head(cookiesToSet).options)
         IN  SetAllKeyed(
                IF \E i \in 1..Len(h) : NameOfHeader(h[i]) = Head(cookiesToSet).name
                THEN h ELSE HeadersAppend(h, v),
                Tail(cookiesToSet))

\* setAll(cookiesToSet): forEach instruction, in order, append its
\* serialization.
RECURSIVE SetAllHeaders(_, _)
SetAllHeaders(h, cookiesToSet) ==
    IF cookiesToSet = <<>> THEN h
    ELSE SetAllHeaders(
            HeadersAppend(h, SerializeCookieHeader(Head(cookiesToSet).name,
                                                   Head(cookiesToSet).value,
                                                   Head(cookiesToSet).options)),
            Tail(cookiesToSet))

\* The setAll invocations made so far, over the requests in S.
RECURSIVE WritesOf(_)
WritesOf(S) ==
    IF S = {} THEN 0
    ELSE LET r == CHOOSE x \in S : TRUE
         IN  Len(log[r]) + WritesOf(S \ {r})

\* getServerClient(request), lines 4-27: the state after it returned
\* { client, headers } to the handler of r.
HandleCreated(r) ==
    LET a == NewHeaders(allocated)
    IN  /\ hdl' = [hdl EXCEPT ![r] = a]
        /\ allocated' = allocated \cup {a}
        /\ heap' = [heap EXCEPT ![a] = <<>>]
        /\ snapshot' = [snapshot EXCEPT ![r] = CookieHeaderOf(request[r])]

\* The read callback, invoked by the service during call c of request r.
GetAll(r, c) ==
    /\ c \in calls[r]
    /\ reads' = [reads EXCEPT ![r] = @ \cup
                    {[cookies |-> GetAllResult(r).obj,
                      threw |-> GetAllResult(r).threw,
                      afterWrite |-> log[r] # <<>>]}]
    /\ reads'[r] # reads[r]
    /\ UNCHANGED <<env, request, pc, hdl, allocated, heap, calls, started, result, detail,
                   response, log, snapshot, ops, ui>>

\* The write callback, invoked by the service during call c of request r.
SetAll(r, c, cookiesToSet) ==
    /\ c \in calls[r]
    /\ WritesOf(Req) < MaxWrites
    /\ heap' = [heap EXCEPT ![hdl[r]] = SetAllHeaders(@, cookiesToSet)]
    /\ log' = [log EXCEPT ![r] = Append(@, [call |-> c, batch |-> cookiesToSet])]
    /\ UNCHANGED <<env, request, pc, hdl, allocated, calls, started, result, detail,
                   response, reads, snapshot, ops, ui>>

(***************************************************************************)
(* app/routes/home.tsx                                                     *)
(***************************************************************************)

\* What a member access on the object getServerClient returns yields: the
\* object has the properties client and headers and no other.
HandleHas(prop) == prop \in {"client", "headers"}

\* The property of the handle through which each handler reaches auth:
\* sbServerClient.auth in the home route and the first login version,
\* sbServerClient.client.auth in the second.
AuthPath(route) ==
    CASE route = "homeAction" -> "auth"
      [] route = "homeLoader" -> "auth"
      [] route = "loginLoader1" -> "auth"
      [] route = "loginAction1" -> "auth"
      [] route = "loginLoader2" -> "client"
      [] route = "loginAction2" -> "client"
      [] OTHER -> "client"

\* The property of the handle through which the crud actions reach the
\* items table: sbServerClient.from("items").
TablePath(route) == "from"

Returned(kind, to, error, headers) ==
    [kind |-> kind, to |-> to, error |-> error, thrown |-> FALSE, headers |-> headers,
     cause |-> "", caught |-> NoValue]

Thrown(kind, to, error, headers) ==
    [kind |-> kind, to |-> to, error |-> error, thrown |-> TRUE, headers |-> headers,
     cause |-> "", caught |-> NoValue]

\* The method of auth each handler calls: signOut (line 32), getUser
\* (lines 51, 139, 330), signInWithPassword (lines 171, 344).
AuthMethod(route) ==
    CASE route = "homeAction" -> "signOut"
      [] route \in {"homeLoader", "loginLoader1", "loginLoader2"} -> "getUser"
      [] OTHER -> "signInWithPassword"

\* The message of the Error each cause raises in the handler of a route:
\* createServerClient without its URL or key; the read of a method on
\* sbServerClient.auth, which is undefined; the call of sbServerClient.from,
\* which is undefined.
MessageOf(route, cause) ==
    CASE cause = "config" -> "Your project's URL and Key are required to create a Supabase client!"
      [] cause = "typeError" ->
            CASE AuthMethod(route) = "signOut" ->
                    "Cannot read properties of undefined (reading 'signOut')"
              [] AuthMethod(route) = "getUser" ->
                    "Cannot read properties of undefined (reading 'getUser')"
              [] OTHER ->
                    "Cannot read properties of undefined (reading 'signInWithPassword')"
      [] OTHER -> "sbServerClient.from is not a function"

\* The Error of a cause, as thrown inside the handler of a route.
Raised(route, cause) == ErrorOf(MessageOf(route, cause))

\* A faulty variant of OnException: the crud actions without their
\* try/catch.
OnExceptionCrudUncaught(route, cause, exc) ==
    CASE route = "homeAction" ->
            [Returned("object", "", "Failed to logout", <<>>)
                EXCEPT !.cause = cause, !.caught = exc]
      [] route \in {"loginAction1", "loginAction2"} ->
            [Returned("object", "",
                      IF exc.isError THEN exc.message ELSE "An unknown error occurred",
                      <<>>)
                EXCEPT !.cause = cause, !.caught = exc]
      [] OTHER ->
            [Thrown(IF exc.isError THEN "error" ELSE "value", "", exc.message, <<>>)
                EXCEPT !.cause = cause, !.caught = exc]

\* What the handler of a route does with a value exc thrown inside it: the
\* actions catch it (logout: "Failed to logout"; login: the message of an
\* Error as it is, "An unknown error occurred" for any other value; crud:
\* "An error occurred", with data null), the loaders let the value
\* propagate as it is.
OnException(route, cause, exc) ==
    CASE route = "homeAction" ->
            [Returned("object", "", "Failed to logout", <<>>)
                EXCEPT !.cause = cause, !.caught = exc]
      [] route \in {"loginAction1", "loginAction2"} ->
            [Returned("object", "",
                      IF exc.isError THEN exc.message ELSE "An unknown error occurred",
                      <<>>)
                EXCEPT !.cause = cause, !.caught = exc]
      [] route \in CrudRoutes ->
            [Returned("object", "", "An error occurred", <<>>)
                EXCEPT !.cause = cause, !.caught = exc]
      [] OTHER ->
            [Thrown(IF exc.isError THEN "error" ELSE "value", "", exc.message, <<>>)
                EXCEPT !.cause = cause, !.caught = exc]

\* loginAction1, lines 163-168: a form without email or without password is
\* turned down before getServerClient is reached. loginAction2 has no such
\* test.
FormTurnedDown(route, form) ==
    route = "loginAction1" /\ (IsFalsy(form.email) \/ IsFalsy(form.password))

\* loginAction1, line 162, and loginAction2, line 340: await
\* request.formData(), which throws for a body that is not form data.
ReadForm(r, read) ==
    /\ pc[r] = "ready"
    /\ request[r].route \in {"loginAction1", "loginAction2"}
    /\ IF read # NoValue
       THEN /\ pc' = [pc EXCEPT ![r] = "done"]
            /\ response' = [response EXCEPT ![r] =
                                OnException(request[r].route, "form", read)]
       ELSE IF FormTurnedDown(request[r].route, request[r].form)
       THEN /\ pc' = [pc EXCEPT ![r] = "done"]
            /\ response' = [response EXCEPT ![r] =
                                Returned("object", "", "Invalid form data", <<>>)]
       ELSE /\ pc' = [pc EXCEPT ![r] = "formRead"]
            /\ UNCHANGED response
    /\ UNCHANGED <<env, request, hdl, allocated, heap, calls, started, result, detail,
                   log, reads, snapshot, ops, ui>>

\* The handler reaches getServerClient(request) and runs on to its first
\* await of a service call (or to the exception that stops it).
AtGetClient(r) ==
    \/ pc[r] = "ready" /\ request[r].route \in {"homeAction", "loginLoader2", "concurrent"}
    \/ pc[r] = "formRead" /\ request[r].route = "loginAction2"
    \/ pc[r] = "ready" /\ request[r].route \in {"homeLoader", "loginLoader1"} \cup CrudRoutes
    \/ pc[r] = "ready" /\ request[r].route \in CrudLoaderRoutes
    \/ pc[r] = "formRead" /\ request[r].route = "loginAction1"

\* getServerClient throws: createServerClient rejects the missing value.
GetClientFails(r) ==
    /\ AtGetClient(r)
    /\ ~ConfigPresent(env)
    /\ pc' = [pc EXCEPT ![r] = "done"]
    /\ response' = [response EXCEPT ![r] = OnException(request[r].route, "config",
                                                       Raised(request[r].route, "config"))]
    /\ UNCHANGED <<env, request, hdl, allocated, heap, calls, started, result, detail,
                   log, reads, snapshot, ops, ui>>

\* getServerClient returns, and the handler reaches for auth on a property
\* the handle does not have: TypeError, before any service call.
GetClientThenTypeError(r) ==
    /\ AtGetClient(r)
    /\ ConfigPresent(env)
    /\ request[r].route \in AuthRoutes
    /\ ~HandleHas(AuthPath(request[r].route))
    /\ HandleCreated(r)
    /\ pc' = [pc EXCEPT ![r] = "done"]
    /\ response' = [response EXCEPT ![r] =
                        OnException(request[r].route, "typeError",
                                    Raised(request[r].route, "typeError"))]
    /\ UNCHANGED <<env, request, calls, started, result, detail, log, reads, ops, ui>>

\* getServerClient returns, and the handler issues its service call
\* (getUser, signInWithPassword) and awaits it.
GetClientThenCall(r) ==
    /\ AtGetClient(r)
    /\ ConfigPresent(env)
    /\ request[r].route \in AuthRoutes
    /\ HandleHas(AuthPath(request[r].route))
    /\ HandleCreated(r)
    /\ calls' = [calls EXCEPT ![r] = {1}]
    /\ started' = [started EXCEPT ![r] = {1}]
    /\ pc' = [pc EXCEPT ![r] = "awaiting"]
    /\ UNCHANGED <<env, request, result, detail, response, log, reads, ops, ui>>

\* The awaited service call settles.
CallSettles(r, outcome, d) ==
    /\ pc[r] = "awaiting"
    /\ calls[r] = {1}
    /\ d \in DetailsOf(outcome)
    /\ calls' = [calls EXCEPT ![r] = {}]
    /\ result' = [result EXCEPT ![r] = outcome]
    /\ detail' = [detail EXCEPT ![r] = d]
    /\ pc' = [pc EXCEPT ![r] = "resumed"]
    /\ UNCHANGED <<env, request, hdl, allocated, heap, started, response, log,
                   reads, snapshot, ops, ui>>

\* A faulty variant of AwaitDone: the service call is not awaited.
AwaitSkipped(r) == pc[r] \in {"awaiting", "resumed"}

\* The handler goes on only once the promise it awaits has settled.
AwaitDone(r) == pc[r] = "resumed" /\ calls[r] = {}

\* sbServerClient.headers as the handler passes it to redirect() or data():
\* the response takes the header values the object holds at that moment.
ReadHeaders(r) == heap[hdl[r]]

\* loginLoader2, lines 331-335.
LoginLoader2Response(r) ==
    CASE result[r] = "ok" -> Thrown("redirect", "/home", "", ReadHeaders(r))
      [] result[r] = "error" -> Returned("data", "", "", ReadHeaders(r))
      [] OTHER -> OnException("loginLoader2", "service", detail[r])

\* A faulty variant of LoginAction2Response: the error of the sign-in is
\* not looked at.
LoginAction2ErrorIgnored(r) ==
    CASE result[r] \in {"ok", "error"} -> Returned("redirect", "/home", "", ReadHeaders(r))
      [] OTHER -> OnException("loginAction2", "service", detail[r])

\* loginAction2, lines 349-363.
LoginAction2Response(r) ==
    CASE result[r] = "error" -> Returned("data", "", detail[r].message, ReadHeaders(r))
      [] result[r] = "ok" -> Returned("redirect", "/home", "", ReadHeaders(r))
      [] OTHER -> OnException("loginAction2", "service", detail[r])

\* homeAction, lines 32-34: the result of signOut is not looked at.
HomeActionResponse(r) ==
    CASE result[r] \in {"ok", "error"} -> Returned("redirect", "/login", "", <<>>)
      [] OTHER -> OnException("homeAction", "service", detail[r])

\* homeLoader, lines 52-56.
HomeLoaderResponse(r) ==
    CASE result[r] = "ok" -> Returned("object", "", "", <<>>)
      [] result[r] = "error" -> Thrown("redirect", "/login", "", <<>>)
      [] OTHER -> OnException("homeLoader", "service", detail[r])

\* loginLoader1, lines 141-150.
LoginLoader1Response(r) ==
    CASE result[r] = "ok" -> Thrown("redirect", "/home", "", <<>>)
      [] result[r] = "error" -> Returned("object", "", "", <<>>)
      [] OTHER -> OnException("loginLoader1", "service", detail[r])

\* loginAction1, lines 176-189.
LoginAction1Response(r) ==
    CASE result[r] = "ok" -> Returned("redirect", "/home", "", <<>>)
      [] result[r] = "error" -> Returned("object", "", detail[r].message, <<>>)
      [] OTHER -> OnException("loginAction1", "service", detail[r])

\* crudAction, lines 51-56, 70-75, 85-90 ({ error: error.message } or
\* { data }), and crudActionAlt ({ data, error }).
CrudActionResponse(r) ==
    CASE result[r] = "ok" -> Returned("object", "", "", <<>>)
      [] result[r] = "error" -> Returned("object", "", detail[r].message, <<>>)
      [] OTHER -> OnException(request[r].route, "service", detail[r])

\* The loaders of crud.tsx and of its other version, line 18:
\* return { items, error }.
CrudLoaderResponse(r) ==
    CASE result[r] = "ok" -> Returned("object", "", "", <<>>)
      [] result[r] = "error" -> Returned("object", "", detail[r].message, <<>>)
      [] OTHER -> OnException(request[r].route, "service", detail[r])

\* What the handler of r's route does once its awaited call has settled.
HandlerResponse(r) ==
    CASE request[r].route = "loginLoader2" -> LoginLoader2Response(r)
      [] request[r].route = "loginAction2" -> LoginAction2Response(r)
      [] request[r].route = "homeAction" -> HomeActionResponse(r)
      [] request[r].route = "homeLoader" -> HomeLoaderResponse(r)
      [] request[r].route = "loginLoader1" -> LoginLoader1Response(r)
      [] request[r].route = "loginAction1" -> LoginAction1Response(r)
      [] request[r].route \in CrudLoaderRoutes -> CrudLoaderResponse(r)
      [] OTHER -> CrudActionResponse(r)

\* The handler resumes after its await and returns or throws.
Respond(r) ==
    /\ AwaitDone(r)
    /\ request[r].route \in AllRoutes
    /\ response' = [response EXCEPT ![r] = HandlerResponse(r)]
    /\ pc' = [pc EXCEPT ![r] = "done"]
    /\ UNCHANGED <<env, request, hdl, allocated, heap, calls, started, result, detail,
                   log, reads, snapshot, ops, ui>>


(***************************************************************************)
(* app/routes/crud.tsx and its other version: the action                   *)
(***************************************************************************)

\* The loaders, lines 16-17: getServerClient returns and the loader reaches
\* for sbServerClient.from, a property the handle does not have: TypeError,
\* which nothing catches; had the handle the property, the select would be
\* issued and awaited.
CrudLoaderGetClient(r) ==
    /\ AtGetClient(r)
    /\ request[r].route \in CrudLoaderRoutes
    /\ ConfigPresent(env)
    /\ HandleCreated(r)
    /\ IF ~HandleHas(TablePath(request[r].route))
       THEN /\ pc' = [pc EXCEPT ![r] = "done"]
            /\ response' = [response EXCEPT ![r] =
                                OnException(request[r].route, "notFunction",
                                            Raised(request[r].route, "notFunction"))]
            /\ UNCHANGED <<calls, started, ops>>
       ELSE /\ pc' = [pc EXCEPT ![r] = "awaiting"]
            /\ ops' = [ops EXCEPT ![r] =
                          Append(@, [op |-> "select", id |-> Absent, name |-> Absent,
                                     description |-> Absent])]
            /\ calls' = [calls EXCEPT ![r] = {1}]
            /\ started' = [started EXCEPT ![r] = {1}]
            /\ UNCHANGED response
    /\ UNCHANGED <<env, request, result, detail, log, reads, ui>>

\* crudAction, line 32: getServerClient returns; the action awaits
\* request.formData().
CrudGetClient(r) ==
    /\ AtGetClient(r)
    /\ request[r].route \in CrudRoutes
    /\ ConfigPresent(env)
    /\ HandleCreated(r)
    /\ pc' = [pc EXCEPT ![r] = "formWait"]
    /\ UNCHANGED <<env, request, calls, started, result, detail, response, log, reads, ops, ui>>

\* The table operation each action type asks for: insert of name and
\* description, update of name and description where id equals the id sent,
\* delete where id equals the id sent.
TableOp(form) ==
    CASE form.actionType = "addItem" ->
            [op |-> "insert", id |-> Absent, name |-> form.name,
             description |-> form.description]
      [] form.actionType = "editItem" ->
            [op |-> "update", id |-> form.id, name |-> form.name,
             description |-> form.description]
      [] OTHER ->
            [op |-> "delete", id |-> form.id, name |-> Absent, description |-> Absent]

\* crudAction, lines 33-93: the form is read (or formData throws); for one of
\* the three action types the action reaches for sbServerClient.from, a
\* property the handle does not have, and ends in its catch; had the handle
\* the property, the operation would be issued and awaited. Any other action
\* type is turned down.
CrudReadForm(r, read) ==
    /\ pc[r] = "formWait"
    /\ request[r].route \in CrudRoutes
    /\ IF read # NoValue
       THEN /\ pc' = [pc EXCEPT ![r] = "done"]
            /\ response' = [response EXCEPT ![r] =
                                OnException(request[r].route, "form", read)]
            /\ UNCHANGED <<calls, started, ops>>
       ELSE IF request[r].form.actionType \notin {"addItem", "editItem", "deleteItem"}
       THEN /\ pc' = [pc EXCEPT ![r] = "done"]
            /\ response' = [response EXCEPT ![r] =
                                Returned("object", "", "Invalid action type", <<>>)]
            /\ UNCHANGED <<calls, started, ops>>
       ELSE IF ~HandleHas(TablePath(request[r].route))
       THEN /\ pc' = [pc EXCEPT ![r] = "done"]
            /\ response' = [response EXCEPT ![r] =
                                OnException(request[r].route, "notFunction",
                                            Raised(request[r].route, "notFunction"))]
            /\ UNCHANGED <<calls, started, ops>>
       ELSE /\ pc' = [pc EXCEPT ![r] = "awaiting"]
            /\ ops' = [ops EXCEPT ![r] = Append(@, TableOp(request[r].form))]
            /\ calls' = [calls EXCEPT ![r] = {1}]
            /\ started' = [started EXCEPT ![r] = {1}]
            /\ UNCHANGED response
    /\ UNCHANGED <<env, request, hdl, allocated, heap, result, detail, log, reads, snapshot, ui>>

(***************************************************************************)
(* A caller that issues service calls concurrently on one handle           *)
(***************************************************************************)

\* How many service calls the concurrent caller issues on its handle.
MaxCalls == 2

\* The caller obtains its handle.
ConcCreate(r) ==
    /\ AtGetClient(r)
    /\ request[r].route = "concurrent"
    /\ ConfigPresent(env)
    /\ HandleCreated(r)
    /\ pc' = [pc EXCEPT ![r] = "open"]
    /\ UNCHANGED <<env, request, calls, started, result, detail, response, log, reads, ops, ui>>

\* The caller issues call c without awaiting the calls issued before.
IssueCall(r, c) ==
    /\ pc[r] = "open"
    /\ c \notin started[r]
    /\ calls' = [calls EXCEPT ![r] = @ \cup {c}]
    /\ started' = [started EXCEPT ![r] = @ \cup {c}]
    /\ UNCHANGED <<env, request, pc, hdl, allocated, heap, result, detail, response, log,
                   reads, snapshot, ops, ui>>

\* Call c settles.
CallReturns(r, c) ==
    /\ pc[r] = "open"
    /\ c \in calls[r]
    /\ calls' = [calls EXCEPT ![r] = @ \ {c}]
    /\ UNCHANGED <<env, request, pc, hdl, allocated, heap, started, result, detail,
                   response, log, reads, snapshot, ops, ui>>

\* All calls have settled (Promise.all): the caller reads the headers into
\* its response.
ConcFinish(r) ==
    /\ pc[r] = "open"
    /\ started[r] # {}
    /\ calls[r] = {}
    /\ response' = [response EXCEPT ![r] = Returned("data", "", "", ReadHeaders(r))]
    /\ pc' = [pc EXCEPT ![r] = "done"]
    /\ UNCHANGED <<env, request, hdl, allocated, heap, calls, started, result, detail,
                   log, reads, snapshot, ops, ui>>

(***************************************************************************)
(* app/routes/crud.tsx: the Crud component                                 *)
(***************************************************************************)

\* The items the loader handed to the component, and the texts typed into
\* the name and description fields.
Items ==
    {[id |-> 1, name |-> "n1", description |-> "d1"],
     [id |-> 2, name |-> "n2", description |-> "d2"]}

Texts == {"", "x"}

\* Lines 115-122: currentItem is null (the empty sequence here) and isEditing
\* false; no action has returned yet. effectPending: a render with a new
\* actionData has been committed and its effect (lines 125-131) has not run
\* yet. lastClicked and lastEvent record the item of the last edit click and
\* the last event, for the properties.
UiInitial ==
    [currentItem |-> <<>>, isEditing |-> FALSE, actionData |-> "undefined",
     effectPending |-> FALSE, lastClicked |-> 0, lastEvent |-> "none"]

\* Lines 125-131: the effect of the render that a new actionData caused, if
\* it has not run yet; it resets the edit state when that actionData has no
\* error. A pending effect runs before the next render, after the state
\* updates an event handler has queued.
FlushEffect(u) ==
    IF u.effectPending /\ u.actionData = "ok"
    THEN [u EXCEPT !.currentItem = <<>>, !.isEditing = FALSE, !.effectPending = FALSE]
    ELSE [u EXCEPT !.effectPending = FALSE]

\* A faulty variant of NameChanged: the id of the item is not kept.
NameChangedIdLost(prev, newName) ==
    <<[id |-> 0, name |-> newName,
       description |-> IF prev # <<>> THEN prev[1].description ELSE ""]>>

\* Lines 176-180: the updater of the name field.
NameChanged(prev, newName) ==
    <<[id |-> IF prev # <<>> THEN prev[1].id ELSE 0,
       name |-> newName,
       description |-> IF prev # <<>> THEN prev[1].description ELSE ""]>>

\* Lines 192-196: the updater of the description field.
DescriptionChanged(prev, newDescription) ==
    <<[id |-> IF prev # <<>> THEN prev[1].id ELSE 0,
       name |-> IF prev # <<>> THEN prev[1].name ELSE "",
       description |-> newDescription]>>

\* Lines 159-167: the hidden fields the form submits; id is the empty
\* sequence when the id field is not rendered.
FormFields(u) ==
    [actionType |-> IF u.isEditing THEN "editItem" ELSE "addItem",
     id |-> IF ~u.isEditing THEN <<>>
            ELSE IF u.currentItem = <<>> THEN <<"undefined">>
            ELSE <<u.currentItem[1].id>>]

\* Lines 134-137.
HandleEditClick(item) ==
    /\ ui' = FlushEffect([ui EXCEPT !.currentItem = <<item>>, !.isEditing = TRUE,
                                    !.lastClicked = item.id, !.lastEvent = "editClick"])
    /\ UNCHANGED <<env, request, pc, hdl, allocated, heap, calls, started, result, detail,
                   response, log, reads, snapshot, ops>>

\* Lines 140-143; the Cancel button is rendered only when isEditing
\* (lines 209-217).
HandleCancelEdit ==
    /\ ui.isEditing
    /\ ui' = FlushEffect([ui EXCEPT !.currentItem = <<>>, !.isEditing = FALSE,
                                    !.lastEvent = "cancel"])
    /\ UNCHANGED <<env, request, pc, hdl, allocated, heap, calls, started, result, detail,
                   response, log, reads, snapshot, ops>>

\* Lines 174-181.
ChangeName(t) ==
    /\ ui' = FlushEffect([ui EXCEPT !.currentItem = NameChanged(ui.currentItem, t),
                                    !.lastEvent = "nameChange"])
    /\ UNCHANGED <<env, request, pc, hdl, allocated, heap, calls, started, result, detail,
                   response, log, reads, snapshot, ops>>

\* Lines 190-197.
ChangeDescription(t) ==
    /\ ui' = FlushEffect([ui EXCEPT !.currentItem = DescriptionChanged(ui.currentItem, t),
                                    !.lastEvent = "descriptionChange"])
    /\ UNCHANGED <<env, request, pc, hdl, allocated, heap, calls, started, result, detail,
                   response, log, reads, snapshot, ops>>

\* Line 110 and lines 125-131: the component is rendered with a new
\* actionData, the edit state as it is (an effect still pending runs before
\* this render); the effect of the render is scheduled and has not run.
ActionResult(hasError) ==
    /\ ui' = [FlushEffect(ui) EXCEPT
                 !.actionData = IF hasError THEN "error" ELSE "ok",
                 !.effectPending = TRUE,
                 !.lastEvent = IF hasError THEN "resultError" ELSE "resultOk"]
    /\ UNCHANGED <<env, request, pc, hdl, allocated, heap, calls, started, result, detail,
                   response, log, reads, snapshot, ops>>

\* Lines 125-131: the scheduled effect runs.
RunEffect ==
    /\ ui.effectPending
    /\ ui' = FlushEffect(ui)
    /\ UNCHANGED <<env, request, pc, hdl, allocated, heap, calls, started, result, detail,
                   response, log, reads, snapshot, ops>>

(***************************************************************************)
(* Specifications                                                          *)
(***************************************************************************)

\* The environment of the process: whether each configuration value is set,
\* and the release of the cookie package of the build. Where the Cookie
\* headers are sid=abc and sid=xyz the releases agree and one stands for all.
Envs == [url : BOOLEAN, key : BOOLEAN, cookie : {"1.0"}]

EnvPresent == [url |-> TRUE, key |-> TRUE, cookie |-> "1.0"]

\* The configuration present, under each release of the cookie package.
ParseEnvs == {[EnvPresent EXCEPT !.cookie = c] : c \in CookieReleases}

\* The state once the process runs and the requests of `present` have
\* arrived: no handle exists yet. cookiesA and cookiesB are the Cookie
\* headers request A and request B may carry.
InitWith(envs, present, routes, cookiesA, cookiesB) ==
    /\ env \in envs
    /\ \E ra \in routes, rb \in routes, ca \in cookiesA, cb \in cookiesB :
          request = [r \in Req |->
                        IF r = "A"
                        THEN [route |-> ra, hasCookie |-> ca.hasCookie, cookie |-> ca.cookie,
                              form |-> NoForm]
                        ELSE [route |-> rb, hasCookie |-> cb.hasCookie, cookie |-> cb.cookie,
                              form |-> NoForm]]
    /\ pc = [r \in Req |-> IF r \in present THEN "ready" ELSE "absent"]
    /\ hdl = [r \in Req |-> 0]
    /\ allocated = {}
    /\ heap = [a \in Addr |-> <<>>]
    /\ calls = [r \in Req |-> {}]
    /\ started = [r \in Req |-> {}]
    /\ result = [r \in Req |-> "none"]
    /\ detail = [r \in Req |-> NoValue]
    /\ response = [r \in Req |-> NoResponse]
    /\ log = [r \in Req |-> <<>>]
    /\ reads = [r \in Req |-> {}]
    /\ snapshot = [r \in Req |-> <<>>]
    /\ ops = [r \in Req |-> <<>>]
    /\ ui = UiInitial

\* The route handlers of the repository serving two requests.
Init ==
    InitWith(Envs, Req, HandlerRoutes, {WithCookie(SidAbc)}, {WithCookie(SidXyz)})

Next ==
    \E r \in Req :
        \/ \E read \in FormOutcomes : ReadForm(r, read)
        \/ GetClientFails(r)
        \/ GetClientThenTypeError(r)
        \/ GetClientThenCall(r)
        \/ \E c \in calls[r] : GetAll(r, c)
        \/ \E c \in calls[r], b \in Batches : SetAll(r, c, b)
        \/ \E o \in Outcomes : CallSettles(r, o, DetailOf(o))
        \/ Respond(r)

Spec == Init /\ [][Next]_vars

\* One caller issuing its service calls concurrently on its handle.
ConcInit ==
    InitWith({EnvPresent}, {"A"}, {"concurrent"}, {WithCookie(SidAbc)}, {NoCookie})

ConcNext ==
    \E r \in Req :
        \/ ConcCreate(r)
        \/ \E c \in 1..MaxCalls : IssueCall(r, c)
        \/ \E c \in calls[r] : GetAll(r, c)
        \/ \E c \in calls[r], b \in Batches : SetAll(r, c, b)
        \/ \E c \in calls[r] : CallReturns(r, c)
        \/ ConcFinish(r)

ConcSpec == ConcInit /\ [][ConcNext]_vars

\* The Cookie headers the read callback is tried on, as a client sends them
\* (the request keeps each without its leading and trailing whitespace):
\* every text of up to MaxHeaderLen characters of CookieAlphabet, and the
\* named ones.
CookieAlphabet == {"a", "=", ";", " ", "%"}

MaxHeaderLen == 4

HeaderTexts ==
    UNION {[1..n -> CookieAlphabet] : n \in 0..MaxHeaderLen}
    \cup {SidAbc123, SidAbc,
          <<"a", "=", "%", "2", "0", "b">>,
          <<"a", "=", "%", "3", "1">>,
          <<"a", "=", "%", "C", "3", "%", "A", "9">>,
          <<"a", "=", "b", ";", " ", "a", "=", "c">>,
          <<"j", "u", "n", "k">>}

\* One request through loginLoader2, with any of the headers, under any
\* release of the cookie package.
ParseInit ==
    InitWith(ParseEnvs, {"A"}, {"loginLoader2"},
             {NoCookie} \cup {WithCookie(t) : t \in HeaderTexts}, {NoCookie})

ParseNext ==
    \E r \in Req :
        \/ GetClientThenCall(r)
        \/ \E c \in calls[r] : GetAll(r, c)
        \/ \E o \in Outcomes : CallSettles(r, o, DetailOf(o))
        \/ Respond(r)

ParseSpec == ParseInit /\ [][ParseNext]_vars

\* One request through any handler of home.tsx, crud.tsx and the other
\* version of crud.tsx, with any of the forms of its route.
RouteInit ==
    /\ env \in Envs
    /\ \E ra \in AllRoutes :
          \E f \in FormsOf(ra) :
              request = [r \in Req |->
                            IF r = "A"
                            THEN [route |-> ra, hasCookie |-> TRUE, cookie |-> SidAbc,
                                  form |-> f]
                            ELSE [route |-> "homeAction", hasCookie |-> FALSE,
                                  cookie |-> <<>>, form |-> NoForm]]
    /\ pc = [r \in Req |-> IF r = "A" THEN "ready" ELSE "absent"]
    /\ hdl = [r \in Req |-> 0]
    /\ allocated = {}
    /\ heap = [a \in Addr |-> <<>>]
    /\ calls = [r \in Req |-> {}]
    /\ started = [r \in Req |-> {}]
    /\ result = [r \in Req |-> "none"]
    /\ detail = [r \in Req |-> NoValue]
    /\ response = [r \in Req |-> NoResponse]
    /\ log = [r \in Req |-> <<>>]
    /\ reads = [r \in Req |-> {}]
    /\ snapshot = [r \in Req |-> <<>>]
    /\ ops = [r \in Req |-> <<>>]
    /\ ui = UiInitial

RouteNext ==
    \E r \in Req :
        \/ \E read \in FormOutcomes : ReadForm(r, read)
        \/ GetClientFails(r)
        \/ GetClientThenTypeError(r)
        \/ GetClientThenCall(r)
        \/ CrudGetClient(r)
        \/ CrudLoaderGetClient(r)
        \/ \E read \in FormOutcomes : CrudReadForm(r, read)
        \/ \E c \in calls[r] : GetAll(r, c)
        \/ \E c \in calls[r], b \in Batches : SetAll(r, c, b)
        \/ \E o \in Outcomes : \E d \in DetailsOf(o) : CallSettles(r, o, d)
        \/ Respond(r)

RouteSpec == RouteInit /\ [][RouteNext]_vars

\* The Crud component alone, from its first render, under any sequence of
\* its events.
UiInit ==
    InitWith({EnvPresent}, {}, {"homeAction"}, {NoCookie}, {NoCookie})

UiNext ==
    \/ \E item \in Items : HandleEditClick(item)
    \/ HandleCancelEdit
    \/ \E t \in Texts : ChangeName(t)
    \/ \E t \in Texts : ChangeDescription(t)
    \/ \E e \in BOOLEAN : ActionResult(e)
    \/ RunEffect

UiSpec == UiInit /\ [][UiNext]_vars


(***************************************************************************)
(* Properties                                                              *)
(***************************************************************************)

\* The accumulator of request r's handle.
Accumulator(r) == heap[hdl[r]]

\* The instructions of a log of setAll invocations, in invocation order and,
\* within a batch, in the order given.
RECURSIVE InstructionsOf(_)
InstructionsOf(l) ==
    IF l = <<>> THEN <<>> ELSE Head(l).batch \o InstructionsOf(Tail(l))

SerializeAll(instrs) ==
    [i \in 1..Len(instrs) |->
        SerializeCookieHeader(instrs[i].name, instrs[i].value, instrs[i].options)]

\* C1 as stated: after N invocations of setAll on a handle its accumulator
\* holds exactly N Set-Cookie headers.
C1_OneHeaderPerInvocation ==
    \A r \in Req : hdl[r] # 0 => Len(Accumulator(r)) = Len(log[r])

\* C1, amended: after N invocations of setAll on a handle its accumulator
\* holds exactly one Set-Cookie header per cookie instruction of the N
\* batches, the i-th header being the serialization of the i-th instruction
\* in invocation order.
C1_OneHeaderPerInstruction ==
    \A r \in Req :
        hdl[r] # 0 =>
            /\ Len(Accumulator(r)) = Len(InstructionsOf(log[r]))
            /\ \A i \in 1..Len(Accumulator(r)) :
                  Accumulator(r)[i] = SerializeAll(InstructionsOf(log[r]))[i]

\* C1's case: a handle after several invocations, among them one with no
\* instruction or with more than one.
C1_Witness ==
    \E r \in Req :
        /\ hdl[r] # 0
        /\ Len(log[r]) >= 2
        /\ Len(Accumulator(r)) # Len(log[r])

\* C2: a handler that issued a service call through its handle ends with a
\* response that carries every Set-Cookie header of the handle's
\* accumulator, on every exit path.
C2_ResponseCarriesHeaders ==
    \A r \in Req :
        (pc[r] = "done" /\ request[r].route \in HandlerRoutes /\ started[r] # {})
            => response[r].headers = Accumulator(r)

IsPrefix(s, t) == Len(s) <= Len(t) /\ SubSeq(t, 1, Len(s)) = s

\* The Set-Cookie value a browser that applies the headers in order ends up
\* with for a cookie name: the last header of that name.
RECURSIVE LastHeaderFor(_, _)
LastHeaderFor(headers, name) ==
    IF headers = <<>> THEN <<>>
    ELSE IF NameOfHeader(headers[Len(headers)]) = name THEN headers[Len(headers)]
    ELSE LastHeaderFor(SubSeq(headers, 1, Len(headers) - 1), name)

\* The last instruction for a cookie name, serialized.
RECURSIVE LastInstructionFor(_, _)
LastInstructionFor(instrs, name) ==
    IF instrs = <<>> THEN <<>>
    ELSE IF instrs[Len(instrs)].name = name
    THEN SerializeAll(<<instrs[Len(instrs)]>>)[1]
    ELSE LastInstructionFor(SubSeq(instrs, 1, Len(instrs) - 1), name)

\* C3: the write callback is append-only and order-preserving. In every
\* step the accumulator keeps the headers it had as a prefix; it always
\* equals the concatenation of the batches written, in invocation order and
\* each in the order given; and for each cookie name the last header of that
\* name is the one of the last instruction for it.
C3_AppendOnlyInOrder ==
    /\ [](\A r \in Req :
            hdl[r] # 0 =>
                /\ Accumulator(r) = SerializeAll(InstructionsOf(log[r]))
                /\ \A name \in {Sid, Tok} :
                      LastHeaderFor(Accumulator(r), name)
                          = LastInstructionFor(InstructionsOf(log[r]), name))
    /\ [][\A r \in Req :
            (hdl[r] # 0 /\ hdl'[r] = hdl[r])
                => IsPrefix(heap[hdl[r]], heap'[hdl[r]])]_vars

\* C3's case: sid=old written, then sid=new: two headers for sid, in that
\* order.
C3_Witness ==
    \E r \in Req :
        /\ hdl[r] # 0
        /\ Len(log[r]) = 2
        /\ log[r][1].batch = <<SidOld>>
        /\ log[r][2].batch = <<SidNew, TokDel>>
        /\ NameOfHeader(Accumulator(r)[1]) = Sid
        /\ NameOfHeader(Accumulator(r)[2]) = Sid
        /\ LastHeaderFor(Accumulator(r), Sid) = Accumulator(r)[2]


\* C4: two handles created for two requests are isolated. They hold
\* different Headers objects, each accumulator holds the writes made through
\* its own handle and no other, and every read through a handle returns the
\* cookies of its own request: sid=abc through A, sid=xyz through B.
C4_HandlesIsolated ==
    /\ \A r, q \in Req : (r # q /\ hdl[r] # 0 /\ hdl[q] # 0) => hdl[r] # hdl[q]
    /\ \A r \in Req : hdl[r] # 0 => Accumulator(r) = SerializeAll(InstructionsOf(log[r]))
    /\ \A x \in reads["A"] : x.cookies = <<[name |-> Sid, value |-> <<"a", "b", "c">>]>>
    /\ \A x \in reads["B"] : x.cookies = <<[name |-> Sid, value |-> <<"x", "y", "z">>]>>

\* C4's case: both handles have a service call in flight, and both have been
\* read and written through.
C4_Witness ==
    /\ calls["A"] # {} /\ calls["B"] # {}
    /\ log["A"] # <<>> /\ log["B"] # <<>>
    /\ Accumulator("A") # <<>> /\ Accumulator("B") # <<>>
    /\ Accumulator("A") # Accumulator("B")
    /\ reads["A"] # {} /\ reads["B"] # {}

\* C5: within a request the accumulator is created empty before any service
\* call is issued; a handler has produced its response only when no service
\* call on its handle is in flight; once the handler is done, nothing is
\* written to its accumulator and its handle stays its own; and no Headers
\* object serves two requests.
C5_CreatedBeforeReadAfter ==
    /\ [](\A r \in Req :
            /\ response[r].kind # "none" => calls[r] = {}
            /\ started[r] # {} => hdl[r] # 0
            /\ \A q \in Req : (r # q /\ hdl[r] # 0) => hdl[r] # hdl[q])
    /\ [][\A r \in Req :
            /\ (hdl[r] = 0 /\ hdl'[r] # 0) => (heap'[hdl'[r]] = <<>> /\ started[r] = {})
            /\ pc[r] = "done" =>
                  /\ log'[r] = log[r]
                  /\ hdl'[r] = hdl[r]
                  /\ hdl[r] # 0 => heap'[hdl[r]] = heap[hdl[r]]]_vars

\* C5's case: a handler is done, its response holds the headers written
\* during its service call.
C5_Witness ==
    \E r \in Req :
        /\ pc[r] = "done"
        /\ log[r] # <<>>
        /\ response[r].headers # <<>>
        /\ response[r].headers = Accumulator(r)

\* C6: for a request without Cookie header, or with an empty one, the read
\* callback returns no cookie (and does not throw); for the header
\* sid=abc123 it returns sid -> abc123.
C6_ReadOfAbsentEmptyAndSid ==
    \A r \in Req : \A x \in reads[r] :
        /\ (~request[r].hasCookie \/ request[r].cookie = <<>>)
              => (~x.threw /\ x.cookies = <<>>)
        /\ (request[r].hasCookie /\ request[r].cookie = SidAbc123)
              => (~x.threw /\ \E i \in 1..Len(x.cookies) :
                        x.cookies[i] = [name |-> Sid,
                                        value |-> <<"a", "b", "c", "1", "2", "3">>])

\* C6's case: the read callback has run for a request without Cookie header.
C6_Witness ==
    \E r \in Req : ~request[r].hasCookie /\ reads[r] # {}

\* The segments of a header text, split at each ";".
RECURSIVE Segments(_)
Segments(s) ==
    LET semi == IndexOf(s, ";", 1)
    IN  IF semi = 0 THEN <<s>>
        ELSE <<SubSeq(s, 1, semi - 1)>> \o Segments(SubSeq(s, semi + 1, Len(s)))

\* A segment that is a cookie pair: a name that is not empty, an "=", and a
\* value whose percent escapes decode.
WellFormedPair(seg) ==
    LET eq == IndexOf(seg, "=", 1)
    IN  /\ eq # 0
        /\ Trim(SubSeq(seg, 1, eq - 1)) # <<>>
        /\ DecodeURIComponent(Trim(SubSeq(seg, eq + 1, Len(seg)))).ok

\* A header that cannot be parsed: it is present and not empty, and none of
\* its segments is a cookie pair (a text without "=", a pair without a name,
\* a value whose escapes do not decode).
Unparsable(req) ==
    /\ req.hasCookie
    /\ req.cookie # <<>>
    /\ \A i \in 1..Len(Segments(req.cookie)) : ~WellFormedPair(Segments(req.cookie)[i])

\* C7: the read callback never throws, whatever the Cookie header, and for a
\* header that cannot be parsed it returns no cookie.
C7_UnparsableIsSilent ==
    \A r \in Req : \A x \in reads[r] :
        /\ ~x.threw
        /\ Unparsable(request[r]) => x.cookies = <<>>

\* C8: every read through a handle returns the same cookies, the parse of
\* the Cookie header the request had when the handle was created, whatever
\* was written through the handle before the read.
C8_ReadsAreSnapshot ==
    \A r \in Req : \A x \in reads[r] :
        /\ ~x.threw
        /\ x.cookies = ParseCookieHeader(env.cookie, snapshot[r]).obj

\* C8's case: a handle that was read before its first write and after it.
C8_Witness ==
    \E r \in Req :
        /\ \E x \in reads[r] : ~x.afterWrite
        /\ \E x \in reads[r] : x.afterWrite
        /\ Accumulator(r) # <<>>

\* C9: no request fails because of a missing configuration value (the
\* process would not have started).
C9_NoPerRequestConfigError ==
    \A r \in Req : response[r].cause # "config"

\* The headers of the accumulator that invocation j of the log wrote.
RECURSIVE Offset(_, _)
Offset(l, j) == IF j <= 1 THEN 0 ELSE Len(l[j - 1].batch) + Offset(l, j - 1)

\* C10: with several service calls in flight on one handle, each invoking
\* the write callback, no header is lost or duplicated and the headers of
\* each batch stand together, in the batch's order, at the place of the
\* batch's invocation.
C10_ConcurrentAppendsSafe ==
    \A r \in Req :
        hdl[r] # 0 =>
            /\ Len(Accumulator(r)) = Offset(log[r], Len(log[r]) + 1)
            /\ \A j \in 1..Len(log[r]) :
                  SubSeq(Accumulator(r), Offset(log[r], j) + 1,
                         Offset(log[r], j) + Len(log[r][j].batch))
                      = SerializeAll(log[r][j].batch)

\* C10's case: two calls in flight on one handle, their writes interleaved.
C10_Witness ==
    \E r \in Req :
        /\ Cardinality(calls[r]) >= 2
        /\ Len(log[r]) = 3
        /\ log[r][1].call # log[r][2].call
        /\ log[r][3].call = log[r][1].call
        /\ \A j \in 1..3 : log[r][j].batch # <<>>

\* C11: the logout action signs the user out through the handle and returns
\* a redirect to /login; it returns { error: "Failed to logout" } only when
\* the sign-out call itself throws.
C11_LogoutSignsOut ==
    \A r \in Req :
        (request[r].route = "homeAction" /\ pc[r] = "done" /\ ConfigPresent(env))
            => \/ /\ response[r].kind = "redirect"
                  /\ response[r].to = "/login"
                  /\ started[r] # {}
               \/ /\ response[r].error = "Failed to logout"
                  /\ result[r] = "throws"

\* C12: the home loader returns an object, with the user's data when a user
\* is logged in and with user null when not; it does not throw.
C12_HomeLoaderReturnsObject ==
    \A r \in Req :
        (request[r].route = "homeLoader" /\ pc[r] = "done" /\ ConfigPresent(env))
            => /\ ~response[r].thrown
               /\ response[r].kind = "object"

\* C13: in both login versions the loader redirects to /home exactly when
\* the service reports a logged-in user, and otherwise returns the login
\* page data without redirecting and without throwing (the service call
\* itself not throwing).
C13_LoginLoaderRedirectsIffUser ==
    \A r \in Req :
        (/\ request[r].route \in {"loginLoader1", "loginLoader2"}
         /\ pc[r] = "done"
         /\ ConfigPresent(env)
         /\ result[r] # "throws")
            => IF result[r] = "ok"
               THEN response[r].kind = "redirect" /\ response[r].to = "/home"
               ELSE /\ ~response[r].thrown
                    /\ response[r].kind \in {"object", "data"}

\* C14: the crud action performs exactly one operation on the items table,
\* the one its actionType names (addItem: insert of name and description;
\* editItem: update by id; deleteItem: delete by id); with any other or no
\* actionType it performs none and returns "Invalid action type".
C14_OneTableOperation ==
    \A r \in Req :
        (/\ request[r].route \in CrudRoutes
         /\ pc[r] = "done"
         /\ ConfigPresent(env)
         /\ response[r].cause # "form")
            => IF request[r].form.actionType \in {"addItem", "editItem", "deleteItem"}
               THEN ops[r] = <<TableOp(request[r].form)>>
               ELSE /\ ops[r] = <<>>
                    /\ response[r].error = "Invalid action type"

\* The error a login action returns for an exception it caught: the message
\* of an Error as it is, a fixed text for any other value.
ReportedMessage(exc) ==
    IF exc.isError THEN exc.message ELSE "An unknown error occurred"

\* C15: every invocation of a login action ends in a redirect to /home, and
\* that only after a successful sign-in, or in an object whose error is the
\* message the failure carried, as it is (it may be empty): the message of
\* the error the service reported, or of the Error caught, or "An unknown
\* error occurred" when the value caught is not an Error; it never throws and
\* never ends without a value; the first version with email or password
\* missing returns "Invalid form data" without creating a handle or calling
\* the service.
C15_LoginActionErrorAsIs ==
    \A r \in Req :
        (request[r].route \in {"loginAction1", "loginAction2"} /\ pc[r] = "done")
            => /\ ~response[r].thrown
               /\ \/ /\ response[r].kind = "redirect"
                     /\ response[r].to = "/home"
                     /\ result[r] = "ok"
                     /\ response[r].cause = ""
                  \/ /\ response[r].kind \in {"object", "data"}
                     /\ response[r].cause # ""
                     /\ response[r].error = ReportedMessage(response[r].caught)
                     /\ response[r].cause = "service" => response[r].caught = detail[r]
                  \/ /\ response[r].kind \in {"object", "data"}
                     /\ response[r].cause = ""
                     /\ result[r] = "error"
                     /\ response[r].error = detail[r].message
                  \/ /\ response[r].kind \in {"object", "data"}
                     /\ response[r].cause = ""
                     /\ FormTurnedDown(request[r].route, request[r].form)
                     /\ response[r].error = "Invalid form data"
               /\ (/\ request[r].route = "loginAction1"
                   /\ response[r].cause # "form"
                   /\ (IsFalsy(request[r].form.email) \/ IsFalsy(request[r].form.password)))
                      => /\ response[r].error = "Invalid form data"
                         /\ started[r] = {}
                         /\ hdl[r] = 0

\* C15 as first stated: every invocation of a login action ends in a redirect
\* to /home, and that only after a successful sign-in, or in an object with a
\* non-empty error; it never throws and never ends without a value; the
\* first version with email or password missing returns "Invalid form data"
\* without creating a handle or calling the service.
C15_LoginActionOutcome ==
    \A r \in Req :
        (request[r].route \in {"loginAction1", "loginAction2"} /\ pc[r] = "done")
            => /\ ~response[r].thrown
               /\ \/ /\ response[r].kind = "redirect"
                     /\ response[r].to = "/home"
                     /\ result[r] = "ok"
                  \/ /\ response[r].kind \in {"object", "data"}
                     /\ response[r].error # ""
               /\ (/\ request[r].route = "loginAction1"
                   /\ response[r].cause # "form"
                   /\ (IsFalsy(request[r].form.email) \/ IsFalsy(request[r].form.password)))
                      => /\ response[r].error = "Invalid form data"
                         /\ started[r] = {}
                         /\ hdl[r] = 0

\* C15's case: a sign-in of the second login version that the service
\* turned down with an error whose message is empty has ended in an object
\* with that empty error.
C15_Witness ==
    \E r \in Req :
        /\ request[r].route = "loginAction2"
        /\ pc[r] = "done"
        /\ result[r] = "error"
        /\ detail[r] = ErrorOf("")
        /\ response[r].kind = "data"
        /\ response[r].error = ""

\* C16: the crud action never throws; a failure the service reports is
\* returned as an error value; an exception while the handle is created, the
\* form is read or the service is called yields data null with "An error
\* occurred"; a result without error is returned only when the table
\* operation succeeded.
C16_CrudActionNeverThrows ==
    \A r \in Req :
        (request[r].route \in CrudRoutes /\ pc[r] = "done")
            => /\ ~response[r].thrown
               /\ response[r].kind = "object"
               /\ response[r].cause # "" => response[r].error = "An error occurred"
               /\ result[r] = "error" => response[r].error # ""
               /\ response[r].error = "" => (result[r] = "ok" /\ ops[r] # <<>>)

\* An exception inside the crud action has been caught.
C16_Witness ==
    \E r \in Req :
        /\ request[r].route \in CrudRoutes
        /\ pc[r] = "done"
        /\ response[r].cause \in {"config", "form", "notFunction"}
        /\ response[r].error = "An error occurred"
        /\ ~response[r].thrown

\* C17: in the Crud component, whenever isEditing holds currentItem is not
\* null and has the id of the item last clicked for editing, and the form
\* submits editItem with that id; otherwise the form submits addItem with no
\* id; a cancel leaves the component in add mode with currentItem null, and
\* so does an action result without error once its effect has run, whatever
\* event came in between; an action result with error leaves the edit state
\* as it was (as the effect of an earlier result, if still pending, leaves
\* it).
C17_EditStateConsistent ==
    /\ [](ui.isEditing =>
            /\ ui.currentItem # <<>>
            /\ ui.currentItem[1].id = ui.lastClicked
            /\ FormFields(ui) = [actionType |-> "editItem", id |-> <<ui.lastClicked>>])
    /\ [](~ui.isEditing => FormFields(ui) = [actionType |-> "addItem", id |-> <<>>])
    /\ []((ui.lastEvent \in {"cancel", "resultOk"} /\ ~ui.effectPending)
             => (~ui.isEditing /\ ui.currentItem = <<>>))
    /\ [][(ui.effectPending /\ ui.actionData = "ok")
             => (~ui'.isEditing /\ ui'.currentItem = <<>>)]_vars
    /\ [][(ui'.lastEvent = "resultError" /\ ~(ui.effectPending /\ ui.actionData = "ok"))
             => (ui'.isEditing = ui.isEditing /\ ui'.currentItem = ui.currentItem)]_vars

\* An item was clicked for editing and its name then changed, and an action
\* result with error has arrived and its effect has run: the component still
\* edits that item.
C17_Witness ==
    /\ ui.isEditing
    /\ ui.lastEvent = "resultError"
    /\ ~ui.effectPending
    /\ ui.actionData = "error"
    /\ ui.currentItem # <<>>
    /\ ui.currentItem[1].id = 2
    /\ ui.currentItem[1].name = "x"

====
